---- MODULE Spec2Model ----
(***************************************************************************)
(* Model of image_to_commands.py: the ImageToCommandsApp converter.        *)
(*                                                                         *)
(* Python strings that the program parses (palette keys, hex colours) are  *)
(* sequences of one-character strings, so that int() and slicing are       *)
(* modelled by what they do.  A Python dict is the sequence of its items   *)
(* in insertion order.  A raster is given by the value of each pixel       *)
(* (px, py); the final grid is a function from cells to (r, g, b, a).      *)
(***************************************************************************)
EXTENDS Integers, Sequences, FiniteSets, TLC

(***************************************************************************)
(* Configuration (module level of image_to_commands.py).                   *)
(***************************************************************************)
\* The side of the final grid.  The program sets 32; the model scales the
\* grid down, every formula below is stated for an arbitrary CANVAS_SIZE.
CANVAS_SIZE == 2
PREVIEW_PIXEL_SIZE == 10
SUPER_SAMPLE_FACTOR == 10

\* Largest number of entries of a modelled palette file.
MaxEntries == 2

\* Number of colours of a Pillow "P" palette (256 * 3 = 768 values).
PILLOW_PALETTE_COLORS == 256

Min2(a, b) == IF a < b THEN a ELSE b
Max2(a, b) == IF a > b THEN a ELSE b

(***************************************************************************)
(* int(s, 16) and int(s) on the characters the model feeds them.           *)
(***************************************************************************)
HexDigitValue ==
  [c \in {"0","1","2","3","4","5","6","7","8","9",
          "a","b","c","d","e","f","A","B","C","D","E","F"} |->
     CASE c = "0" -> 0 [] c = "1" -> 1 [] c = "2" -> 2 [] c = "3" -> 3
       [] c = "4" -> 4 [] c = "5" -> 5 [] c = "6" -> 6 [] c = "7" -> 7
       [] c = "8" -> 8 [] c = "9" -> 9
       [] c \in {"a", "A"} -> 10 [] c \in {"b", "B"} -> 11
       [] c \in {"c", "C"} -> 12 [] c \in {"d", "D"} -> 13
       [] c \in {"e", "E"} -> 14 [] c \in {"f", "F"} -> 15]

RECURSIVE DigitsValue(_, _, _)
\* The value of the digit string s in the given base; ok is FALSE (int()
\* raises ValueError) when s holds a character that is not a digit of it.
DigitsValue(s, base, acc) ==
  IF s = <<>> THEN [ok |-> TRUE, val |-> acc]
  ELSE IF Head(s) \notin DOMAIN HexDigitValue THEN [ok |-> FALSE, val |-> 0]
  ELSE IF HexDigitValue[Head(s)] >= base THEN [ok |-> FALSE, val |-> 0]
  ELSE DigitsValue(Tail(s), base, acc * base + HexDigitValue[Head(s)])

\* int(s, base): one optional leading "+", then at least one digit.
PyInt(s, base) ==
  LET body == IF s # <<>> /\ Head(s) = "+" THEN Tail(s) ELSE s
  IN  IF body = <<>> THEN [ok |-> FALSE, val |-> 0]
      ELSE DigitsValue(body, base, 0)

RECURSIVE LStrip(_, _)
\* str.lstrip(ch): every leading ch is removed.
LStrip(s, ch) ==
  IF s # <<>> /\ Head(s) = ch THEN LStrip(Tail(s), ch) ELSE s

\* s[i:j] of Python, i and j counted from 0, truncated at the end of s.
PySlice(s, i, j) == SubSeq(s, i + 1, Min2(j, Len(s)))

\* _hex_to_rgb: the (R, G, B) tuple, or kind ValueError when int() raises.
_hex_to_rgb(hex_color) ==
  LET h == LStrip(hex_color, "#")
      r == PyInt(PySlice(h, 0, 2), 16)
      g == PyInt(PySlice(h, 2, 4), 16)
      b == PyInt(PySlice(h, 4, 6), 16)
  IN  IF r.ok /\ g.ok /\ b.ok
      THEN [kind |-> "ok", rgb |-> <<r.val, g.val, b.val>>]
      ELSE [kind |-> "ValueError", rgb |-> <<>>]

(***************************************************************************)
(* _load_palette.  A palette file is missing, or is not JSON, or is a JSON *)
(* object: the sequence of its (key, value) members in file order.         *)
(***************************************************************************)
RECURSIVE LoadEntries(_, _)
\* The dict comprehension of _load_palette over data.items(): the first
\* member that raises ends it; KeyError is caught (None), ValueError is not.
LoadEntries(data, acc) ==
  IF data = <<>> THEN [kind |-> "ok", value |-> acc]
  ELSE LET key == Head(data).key
           value == Head(data).value
       IN  IF "hex" \notin DOMAIN value
           THEN [kind |-> "None", value |-> <<>>]
           ELSE LET c == _hex_to_rgb(value.hex)
                IN  IF c.kind = "ValueError"
                    THEN [kind |-> "ValueError", value |-> <<>>]
                    ELSE LoadEntries(Tail(data),
                                     Append(acc, [key |-> key, rgb |-> c.rgb]))

_load_palette(file) ==
  IF file.kind = "FileNotFoundError" THEN [kind |-> "None", value |-> <<>>]
  ELSE IF file.kind = "JSONDecodeError" THEN [kind |-> "None", value |-> <<>>]
  ELSE LoadEntries(file.data, <<>>)

(***************************************************************************)
(* IEEE-754 binary64 arithmetic for the luminance of line 107.  A double   *)
(* is held exactly as an integer number of units of 2^-56, in four limbs   *)
(* of 20 bits, least significant first: 0.299, 0.587 and 0.114 and every   *)
(* product and sum of line 107 are multiples of that unit.                 *)
(***************************************************************************)
LimbBase == 2^20

BigNorm(l) ==
  LET t1 == l[2] + (l[1] \div LimbBase)
      t2 == l[3] + (t1 \div LimbBase)
      t3 == l[4] + (t2 \div LimbBase)
  IN  <<l[1] % LimbBase, t1 % LimbBase, t2 % LimbBase, t3>>

BigMulSmall(a, n) == BigNorm(<<a[1] * n, a[2] * n, a[3] * n, a[4] * n>>)

BigAdd(a, b) == BigNorm(<<a[1] + b[1], a[2] + b[2], a[3] + b[3], a[4] + b[4]>>)

RECURSIVE BitLen(_)
BitLen(n) == IF n = 0 THEN 0 ELSE 1 + BitLen(n \div 2)

BigBitLen(a) ==
  IF a[4] > 0 THEN 60 + BitLen(a[4])
  ELSE IF a[3] > 0 THEN 40 + BitLen(a[3])
  ELSE IF a[2] > 0 THEN 20 + BitLen(a[2])
  ELSE BitLen(a[1])

\* Round to 53 significant bits, to nearest, ties to even.
RoundDouble(a) ==
  LET n == BigBitLen(a)
  IN  IF n <= 53 THEN a
      ELSE LET q == 2^(n - 53)
               rem == a[1] % q
               odd == (a[1] \div q) % 2 = 1
               down == <<a[1] - rem, a[2], a[3], a[4]>>
           IN  IF rem * 2 > q \/ (rem * 2 = q /\ odd)
               THEN BigNorm(<<down[1] + q, down[2], down[3], down[4]>>)
               ELSE down

DoubleMul(c, n) == RoundDouble(BigMulSmall(c, n))
DoubleAdd(a, b) == RoundDouble(BigAdd(a, b))

DoubleLess(a, b) ==
  \/ a[4] < b[4]
  \/ a[4] = b[4] /\ a[3] < b[3]
  \/ a[4] = b[4] /\ a[3] = b[3] /\ a[2] < b[2]
  \/ a[4] = b[4] /\ a[3] = b[3] /\ a[2] = b[2] /\ a[1] < b[1]

\* float(n) for a small non-negative integer n: n * 2^56 units.
DoubleOfInt(n) == BigNorm(<<0, 0, n * 2^16, 0>>)

\* The doubles nearest to the literals 0.299, 0.587 and 0.114.
D0_299 == <<67108, 276824, 19595, 0>>
D0_587 == <<33552, 662700, 38469, 0>>
D0_114 == <<947913, 109051, 7471, 0>>

\* luminance = 0.299*r + 0.587*g + 0.114*b, evaluated left to right.
Luminance(rgb) ==
  DoubleAdd(DoubleAdd(DoubleMul(D0_299, rgb[1]), DoubleMul(D0_587, rgb[2])),
            DoubleMul(D0_114, rgb[3]))

(***************************************************************************)
(* The palette: palette_data is the dict of _load_palette, the sequence of *)
(* its items [key, rgb] in insertion (file) order.                         *)
(***************************************************************************)
PaletteKeys(pd) == {pd[i].key : i \in 1..Len(pd)}

\* palette_data[key]["rgb"]
PaletteRgb(pd, key) == pd[CHOOSE i \in 1..Len(pd) : pd[i].key = key].rgb

\* The literal "00" of lines 100, 101 and 115.
DefaultKey == <<"0", "0">>

KeyInt(key) == PyInt(key, 10).val

RECURSIVE InsertSorted(_, _)
\* k goes after every key whose int() is not greater: sorted() is stable.
InsertSorted(sorted, k) ==
  IF sorted = <<>> THEN <<k>>
  ELSE IF KeyInt(Head(sorted)) <= KeyInt(k)
       THEN <<Head(sorted)>> \o InsertSorted(Tail(sorted), k)
       ELSE <<k>> \o sorted

RECURSIVE SortKeys(_, _)
SortKeys(keys, acc) ==
  IF keys = <<>> THEN acc
  ELSE SortKeys(Tail(keys), InsertSorted(acc, Head(keys)))

\* Variant of line 83 without the sort: the keys in declared order.
SortedPaletteKeysDeclared(pd) == [i \in 1..Len(pd) |-> pd[i].key]
\* Line 83: sorted(self.palette_data.keys(), key=int)
SortedPaletteKeys(pd) == SortKeys([i \in 1..Len(pd) |-> pd[i].key], <<>>)

\* Lines 86-97: the colour table given to Pillow.  The flat list
\* [r,g,b, r,g,b, ...] is held as its colour triples: colors are the
\* triples of the sorted keys, followed by pad triples of padding.
FlatPalette(pd, keys) ==
  LET colors == [i \in 1..Len(keys) |-> PaletteRgb(pd, keys[i])]
  IN  [colors |-> colors,
       padding |-> <<0, 0, 0>>,
       pad |-> IF Len(colors) * 3 < PILLOW_PALETTE_COLORS * 3
               THEN PILLOW_PALETTE_COLORS - Len(keys) ELSE 0]

\* The colour at index i (from 0) of the quantizer's table.
TableLen(tbl) == Len(tbl.colors) + tbl.pad
TableColor(tbl, i) ==
  IF i < Len(tbl.colors) THEN tbl.colors[i + 1] ELSE tbl.padding

RECURSIVE DarkestScanTiesLast(_, _, _)
\* Variant of the loop with luminance <= min_lum: ties keep the later key.
DarkestScanTiesLast(items, min_lum, darkest) ==
  IF items = <<>> THEN darkest
  ELSE LET luminance == Luminance(Head(items).rgb)
       IN  IF ~DoubleLess(min_lum, luminance)
           THEN DarkestScanTiesLast(Tail(items), luminance, Head(items).key)
           ELSE DarkestScanTiesLast(Tail(items), min_lum, darkest)

RECURSIVE DarkestScan(_, _, _)
\* Lines 104-110: the loop over palette_data.items().
DarkestScan(items, min_lum, darkest) ==
  IF items = <<>> THEN darkest
  ELSE LET luminance == Luminance(Head(items).rgb)
       IN  IF DoubleLess(luminance, min_lum)
           THEN DarkestScan(Tail(items), luminance, Head(items).key)
           ELSE DarkestScan(Tail(items), min_lum, darkest)

\* Lines 100-110.  lightest_color_key and max_lum are initialised and the
\* loop never assigns them.
DarkestColorKey(pd) == DarkestScan(pd, DoubleOfInt(256), DefaultKey)
LightestColorKey(pd) == DefaultKey

(***************************************************************************)
(* _find_closest_color                                                     *)
(***************************************************************************)
DistSq(c1, c2) ==
  (c1[1] - c2[1]) * (c1[1] - c2[1]) + (c1[2] - c2[2]) * (c1[2] - c2[2])
    + (c1[3] - c2[3]) * (c1[3] - c2[3])

\* float('inf'): greater than every squared distance.
Inf == [inf |-> TRUE, val |-> 0]
Finite(n) == [inf |-> FALSE, val |-> n]

RECURSIVE ClosestScanTiesLast(_, _, _, _)
\* Variant of the loop with dist_sq <= min_dist_sq: ties keep the later key.
ClosestScanTiesLast(items, rgb_tuple, min_dist_sq, best_key) ==
  IF items = <<>> THEN best_key
  ELSE LET dist_sq == DistSq(rgb_tuple, Head(items).rgb)
       IN  IF min_dist_sq.inf \/ dist_sq <= min_dist_sq.val
           THEN ClosestScanTiesLast(Tail(items), rgb_tuple, Finite(dist_sq),
                                    Head(items).key)
           ELSE ClosestScanTiesLast(Tail(items), rgb_tuple, min_dist_sq,
                                    best_key)

RECURSIVE ClosestScan(_, _, _, _)
\* Lines 118-124: the loop over palette_data.items().
ClosestScan(items, rgb_tuple, min_dist_sq, best_key) ==
  IF items = <<>> THEN best_key
  ELSE LET dist_sq == DistSq(rgb_tuple, Head(items).rgb)
       IN  IF min_dist_sq.inf \/ dist_sq < min_dist_sq.val
           THEN ClosestScan(Tail(items), rgb_tuple, Finite(dist_sq),
                            Head(items).key)
           ELSE ClosestScan(Tail(items), rgb_tuple, min_dist_sq, best_key)

\* Variant with min_dist_sq starting at 0: no entry ever replaces "00".
_find_closest_color_zero_start(pd, rgb_tuple) ==
  ClosestScan(pd, rgb_tuple, Finite(0), DefaultKey)

_find_closest_color(pd, rgb_tuple) ==
  ClosestScan(pd, rgb_tuple, Inf, DefaultKey)

(***************************************************************************)
(* The conversion pipeline of _select_and_process_image.                   *)
(*                                                                         *)
(* The request's input is high_res_img, the picked file after Image.open,  *)
(* crop, resize and convert("RGBA") (lines 141-156), a raster of           *)
(* WorkSize x WorkSize pixels.  The modelled rasters are described by a    *)
(* record img: the subject is the rectangle [x0, x1) x [0, y1) with alpha  *)
(* img.alpha, the rest has alpha 0; the fill layer of steps 5-6 has colour *)
(* img.fill, and the line-art mask of step 6 is set from column            *)
(* img.ink_from on.                                                        *)
(***************************************************************************)
WorkSize == CANVAS_SIZE * SUPER_SAMPLE_FACTOR

Cells == (0..(CANVAS_SIZE - 1)) \X (0..(CANVAS_SIZE - 1))

\* Line 159: high_res_img.getchannel('A')
HighResAlphaMask(img, px, py) ==
  IF img.x0 <= px /\ px < img.x1 /\ py < img.y1 THEN img.alpha ELSE 0

\* Lines 170-172: the binarized contour mask.
HighResLineArtMask(img, px, py) == IF px >= img.ink_from THEN 255 ELSE 0

\* Lines 176-179: the darkest palette colour is pasted where the line-art
\* mask is set, the fill layer stays elsewhere.
HighResColorFillRgb(img, darkest_color_rgb, px, py) ==
  IF HighResLineArtMask(img, px, py) = 255 THEN darkest_color_rgb ELSE img.fill

\* Lines 182-183: convert("RGBA") then putalpha(high_res_alpha_mask):
\* the (r, g, b, a) of one pixel of high_res_final_img before line 189.
HighResFinalPixel(img, darkest_color_rgb, px, py) ==
  LET rgb == HighResColorFillRgb(img, darkest_color_rgb, px, py)
  IN  <<rgb[1], rgb[2], rgb[3], HighResAlphaMask(img, px, py)>>

\* Pillow's expand() before a rank filter repeats the border pixels.
ClampCoord(p) == Max2(0, Min2(WorkSize - 1, p))

\* The pixels of the size x size window around (px, py), row by row.
\* (<<>> \o f is the sequence f, held as a tuple.)
Window(img, darkest_color_rgb, size, px, py) ==
  <<>> \o [k \in 1..(size * size) |->
             HighResFinalPixel(img, darkest_color_rgb,
               ClampCoord(px + ((k - 1) % size) - (size \div 2)),
               ClampCoord(py + ((k - 1) \div size) - (size \div 2)))]

\* The value at index rank (from 0) of the sorted list of the band's values
\* in the window.
OrderStatistic(window, band, rank) ==
  CHOOSE v \in {window[i][band] : i \in 1..Len(window)} :
    /\ Cardinality({i \in 1..Len(window) : window[i][band] < v}) <= rank
    /\ Cardinality({i \in 1..Len(window) : window[i][band] <= v}) > rank

\* Line 189: Image.filter(RankFilter(size, rank)) filters every band of a
\* multi-band image on its own, the alpha band included.
RankFilterPixel(img, darkest_color_rgb, size, rank, px, py) ==
  \* (the window is bound as a value: it is built once)
  CHOOSE filtered \in
    {<<OrderStatistic(window, 1, rank), OrderStatistic(window, 2, rank),
       OrderStatistic(window, 3, rank), OrderStatistic(window, 4, rank)>> :
       window \in {Window(img, darkest_color_rgb, size, px, py)}} : TRUE

\* Line 193: resize(..., NEAREST) reads the source pixel under the centre of
\* each destination pixel: floor((x + 0.5) * SUPER_SAMPLE_FACTOR).
SampleCoord(x) == (x * SUPER_SAMPLE_FACTOR) + (SUPER_SAMPLE_FACTOR \div 2)

\* Lines 182-193: final_img, the (r, g, b, a) of every cell (x, y).
FinalImg(img, darkest_color_rgb) ==
  [c \in Cells |->
     RankFilterPixel(img, darkest_color_rgb, 5, 20,
                     SampleCoord(c[1]), SampleCoord(c[2]))]

\* The alpha of high_res_alpha_mask at the pixel each cell is sampled from.
SampledMaskAlpha(img) ==
  [c \in Cells |-> HighResAlphaMask(img, SampleCoord(c[1]), SampleCoord(c[2]))]

HexChars ==
  <<"0","1","2","3","4","5","6","7","8","9","a","b","c","d","e","f">>

\* Line 214: f"#{r:02x}{g:02x}{b:02x}"
ColorHex(rgb) ==
  <<"#", HexChars[(rgb[1] \div 16) + 1], HexChars[(rgb[1] % 16) + 1],
         HexChars[(rgb[2] \div 16) + 1], HexChars[(rgb[2] % 16) + 1],
         HexChars[(rgb[3] \div 16) + 1], HexChars[(rgb[3] % 16) + 1]>>

\* Lines 209-219: the body of the loops for one opaque pixel.
PixelOutput(pd, x, y, rgb) ==
  LET closest_color_key == _find_closest_color(pd, rgb)
  IN  [command |-> [cmd |-> "!pixel", x |-> x, y |-> y,
                    key |-> closest_color_key],
       rectangle |-> [x0 |-> x * PREVIEW_PIXEL_SIZE,
                      y0 |-> y * PREVIEW_PIXEL_SIZE,
                      x1 |-> (x + 1) * PREVIEW_PIXEL_SIZE,
                      y1 |-> (y + 1) * PREVIEW_PIXEL_SIZE,
                      fill |-> ColorHex(PaletteRgb(pd, closest_color_key))]]

RECURSIVE EmitLoopColumnMajor(_, _, _, _)
\* Variant of the loops with x outer and y inner.
EmitLoopColumnMajor(final_pixels, pd, i, out) ==
  IF i >= CANVAS_SIZE * CANVAS_SIZE THEN out
  ELSE LET x == i \div CANVAS_SIZE
           y == i % CANVAS_SIZE
           p == final_pixels[<<x, y>>]
       IN  IF p[4] < 128
           THEN EmitLoopColumnMajor(final_pixels, pd, i + 1, out)
           ELSE LET o == PixelOutput(pd, x, y, <<p[1], p[2], p[3]>>)
                IN  EmitLoopColumnMajor(final_pixels, pd, i + 1,
                      [commands |-> Append(out.commands, o.command),
                       preview |-> Append(out.preview, o.rectangle)])

RECURSIVE EmitLoop(_, _, _, _)
\* Lines 202-219: for y in range(CANVAS_SIZE): for x in range(CANVAS_SIZE),
\* i counts the iterations.
EmitLoop(final_pixels, pd, i, out) ==
  IF i >= CANVAS_SIZE * CANVAS_SIZE THEN out
  ELSE LET y == i \div CANVAS_SIZE
           x == i % CANVAS_SIZE
           p == final_pixels[<<x, y>>]
       IN  IF p[4] < 128
           THEN EmitLoop(final_pixels, pd, i + 1, out)
           ELSE LET o == PixelOutput(pd, x, y, <<p[1], p[2], p[3]>>)
                IN  EmitLoop(final_pixels, pd, i + 1,
                      [commands |-> Append(out.commands, o.command),
                       preview |-> Append(out.preview, o.rectangle)])

(***************************************************************************)
(* State.                                                                  *)
(***************************************************************************)
VARIABLES
  palette_file,         \* the contents of PALETTE_FILE (input, never written)
  pc,                   \* "start", "ready", "destroyed" (palette error shown,
                        \* root destroyed) or "crashed" (unhandled exception)
  messagebox,           \* title of the last error dialog shown, or "none"
  palette_data,         \* self.palette_data, <<>> while there is none
  sorted_palette_keys,  \* self.sorted_palette_keys
  dither_palette,       \* the palette put into self.dither_palette_img
  darkest_color_key,    \* self.darkest_color_key
  lightest_color_key,   \* self.lightest_color_key
  commands_text,        \* the lines of the commands text widget
  preview_canvas,       \* the rectangles on the preview canvas
  status_label,         \* the text of the status label
  last_request          \* history: the outcome of the last request handled

vars == <<palette_file, pc, messagebox, palette_data, sorted_palette_keys,
          dither_palette, darkest_color_key, lightest_color_key,
          commands_text, preview_canvas, status_label, last_request>>

prepared == <<palette_data, sorted_palette_keys, dither_palette,
              darkest_color_key, lightest_color_key>>

NoRequest(kind) == [kind |-> kind, mask_alpha |-> <<>>, final_img |-> <<>>]

NoTable == [colors |-> <<>>, padding |-> <<0, 0, 0>>, pad |-> 0]

(***************************************************************************)
(* Inputs.                                                                 *)
(***************************************************************************)
Keys == {<<"0", "0">>, <<"0", "1">>, <<"1">>, <<"2">>, <<"1", "0">>}

HexStrings ==
  { <<"#", "0", "0", "0", "0", "0", "0">>,
    <<"0", "0", "0", "0", "a", "d">>,
    <<"#", "#", "3", "7", "0", "5", "0", "3">>,
    <<"+", "1", "+", "2", "+", "3">>,
    <<"#", "g", "g", "0", "0", "0", "0">>,
    <<"#", "f", "f", "f">> }

\* The JSON values of the members: objects with or without a "hex" field.
Values == {[hex |-> h] : h \in HexStrings} \cup {[name |-> <<"x">>]}

Members == {[key |-> k, value |-> v] : k \in Keys, v \in Values}

ObjectData ==
  {d \in UNION {[1..n -> Members] : n \in 0..MaxEntries} :
     \A i, j \in DOMAIN d : i # j => d[i].key # d[j].key}

PaletteFiles ==
  {[kind |-> "FileNotFoundError", data |-> <<>>],
   [kind |-> "JSONDecodeError", data |-> <<>>]}
    \cup {[kind |-> "object", data |-> d] : d \in ObjectData}

PipelinePaletteFiles ==
  {[kind |-> "object",
    data |-> <<[key |-> <<"0", "1">>,
                value |-> [hex |-> <<"0", "0", "0", "0", "a", "d">>]],
               [key |-> <<"0", "0">>,
                value |-> [hex |-> <<"#", "#", "3", "7", "0", "5", "0", "3">>]],
               [key |-> <<"2">>,
                value |-> [hex |-> <<"#", "0", "0", "0", "0", "0", "0">>]]>>]}

\* (3, 0, 80) is at the same distance from (0, 0, 173) and (55, 5, 3).
PixelColors == {<<0, 0, 0>>, <<3, 0, 80>>, <<55, 5, 3>>, <<255, 255, 255>>}

Image(x0, x1, y1, alpha, fill, ink_from) ==
  [x0 |-> x0, x1 |-> x1, y1 |-> y1, alpha |-> alpha, fill |-> fill,
   ink_from |-> ink_from]

SmallImages == {Image(0, WorkSize, WorkSize, 255, <<3, 0, 80>>, WorkSize)}

\* The right and lower edges of the subject: around the window of the first
\* sampled pixel, inside the second cell, the whole raster.
MaskEdges ==
  {0, 4, 5, 8, SUPER_SAMPLE_FACTOR + 4, WorkSize}

\* alpha of the subject, fill colour, first column of the line art.
Layers ==
  {<<127, <<3, 0, 80>>, WorkSize>>, <<128, <<3, 0, 80>>, WorkSize>>,
   <<255, <<255, 255, 255>>, WorkSize>>, <<255, <<255, 255, 255>>, 4>>}

PipelineImages ==
  {Image(x0, x1, y1, l[1], l[2], l[3]) :
     x0 \in {0, SUPER_SAMPLE_FACTOR}, x1 \in MaskEdges,
     y1 \in {4, 6, WorkSize}, l \in Layers}

Requests(images) ==
  {[kind |-> "cancel", img |-> <<>>], [kind |-> "unreadable", img |-> <<>>]}
    \cup {[kind |-> "image", img |-> i] : i \in images}

(***************************************************************************)
(* Init: the process before ImageToCommandsApp(root).                      *)
(***************************************************************************)
InitWith(files) ==
  /\ palette_file \in files
  /\ pc = "start"
  /\ messagebox = "none"
  /\ palette_data = <<>>
  /\ sorted_palette_keys = <<>>
  /\ dither_palette = NoTable
  /\ darkest_color_key = <<>>
  /\ lightest_color_key = <<>>
  /\ commands_text = <<>>
  /\ preview_canvas = <<>>
  /\ status_label = [text |-> "", n |-> 0]
  /\ last_request = NoRequest("none")

Init == InitWith(PaletteFiles)

InitPipeline == InitWith(PipelinePaletteFiles)

(***************************************************************************)
(* __init__ (lines 16-63) with _load_palette and                           *)
(* _prepare_dithering_palette.                                             *)
(***************************************************************************)
__init__ ==
  /\ pc = "start"
  /\ LET loaded == _load_palette(palette_file)
     IN  IF loaded.kind = "ValueError"
         THEN /\ pc' = "crashed"
              /\ UNCHANGED <<messagebox, prepared, status_label>>
         ELSE IF loaded.kind = "None" \/ loaded.value = <<>>
         THEN /\ pc' = "destroyed"
              /\ messagebox' = "Error"
              /\ UNCHANGED <<prepared, status_label>>
         ELSE /\ pc' = "ready"
              /\ palette_data' = loaded.value
              /\ sorted_palette_keys' = SortedPaletteKeys(loaded.value)
              /\ dither_palette' =
                   FlatPalette(loaded.value, SortedPaletteKeys(loaded.value))
              /\ darkest_color_key' = DarkestColorKey(loaded.value)
              /\ lightest_color_key' = LightestColorKey(loaded.value)
              /\ status_label' =
                   [text |-> "Ready. Select an image to begin.", n |-> 0]
              /\ UNCHANGED messagebox
  /\ UNCHANGED <<palette_file, commands_text, preview_canvas, last_request>>

(***************************************************************************)
(* _select_and_process_image (lines 127-227), by its three outcomes.       *)
(***************************************************************************)
\* Lines 129-134: the dialog returns no path.
DialogCancelled ==
  /\ last_request' = NoRequest("cancel")
  /\ UNCHANGED <<messagebox, commands_text, preview_canvas, status_label>>

\* Variant in which the widgets are cleared before the pipeline runs.
ProcessingFailedClearsDisplay ==
  /\ messagebox' = "Processing Error"
  /\ status_label' = [text |-> "Error. Please try another image.", n |-> 0]
  /\ last_request' = NoRequest("unreadable")
  /\ commands_text' = <<>>
  /\ preview_canvas' = <<>>

\* Lines 136-141 and 225-227: Image.open (or a later stage before line 196)
\* raises; the handler reports it.
ProcessingFailed ==
  /\ messagebox' = "Processing Error"
  /\ status_label' = [text |-> "Error. Please try another image.", n |-> 0]
  /\ last_request' = NoRequest("unreadable")
  /\ UNCHANGED <<commands_text, preview_canvas>>

\* Lines 136-223: the pipeline runs to its end.
ProcessingDone(img) ==
  \* (final_img and out are bound as values: they are computed once)
  \E darkest_color_rgb \in {PaletteRgb(palette_data, darkest_color_key)} :
  \E final_img \in {FinalImg(img, darkest_color_rgb)} :
  \E out \in {EmitLoop(final_img, palette_data, 0,
                       [commands |-> <<>>, preview |-> <<>>])} :
      /\ commands_text' = out.commands
      /\ preview_canvas' = out.preview
      /\ status_label' = [text |-> "Done! commands generated.",
                          n |-> Len(out.commands)]
      /\ last_request' = [kind |-> "image",
                          mask_alpha |-> SampledMaskAlpha(img),
                          final_img |-> final_img]
      /\ UNCHANGED messagebox

_select_and_process_image(choice) ==
  /\ pc = "ready"
  /\ \/ choice.kind = "cancel" /\ DialogCancelled
     \/ choice.kind = "unreadable" /\ ProcessingFailed
     \/ choice.kind = "image" /\ ProcessingDone(choice.img)
  /\ UNCHANGED <<palette_file, pc, prepared>>

Next ==
  \/ __init__
  \/ \E choice \in Requests(SmallImages) : _select_and_process_image(choice)

NextPipeline ==
  \/ __init__
  \/ \E choice \in Requests(PipelineImages) : _select_and_process_image(choice)

Spec == Init /\ [][Next]_vars

SpecPipeline == InitPipeline /\ [][NextPipeline]_vars

(***************************************************************************)
(* Properties.  The definitions below state what the specification says;   *)
(* they do not use the scans of the code.                                  *)
(***************************************************************************)
Ready == pc = "ready"

\* The first index of the palette whose value under Val is smallest, where
\* Less is the strict order on these values.
EarliestMinimal(pd, Val(_), Less(_, _)) ==
  CHOOSE i \in 1..Len(pd) :
    /\ \A j \in 1..Len(pd) : ~Less(Val(pd[j].rgb), Val(pd[i].rgb))
    /\ \A j \in 1..(i - 1) : Less(Val(pd[i].rgb), Val(pd[j].rgb))

IntLess(a, b) == a < b

\* The earliest key among the entries at minimal squared distance from c.
NearestKey(pd, c) ==
  LET D(rgb) == DistSq(c, rgb) IN pd[EarliestMinimal(pd, D, IntLess)].key

PaletteColors(pd) == {pd[i].rgb : i \in 1..Len(pd)}

ProbeColors == PixelColors \cup PaletteColors(palette_data)

\* C1: for every RGB triple and every non-empty loaded palette,
\* _find_closest_color returns a key of the palette (so does every emitted
\* command), and a palette of exactly one entry always yields that entry's
\* key.
C1_ClosestKeyInPalette ==
  Ready =>
    /\ \A c \in ProbeColors :
         /\ _find_closest_color(palette_data, c) \in PaletteKeys(palette_data)
         /\ Len(palette_data) = 1 =>
              _find_closest_color(palette_data, c) = palette_data[1].key
    /\ \A i \in 1..Len(commands_text) :
         commands_text[i].key \in PaletteKeys(palette_data)

\* C1 witness: a one-entry palette whose key is not the literal "00" has
\* resolved the pixels of a converted image.
C1_Witness ==
  /\ Ready
  /\ Len(palette_data) = 1
  /\ palette_data[1].key # DefaultKey
  /\ commands_text # <<>>
  /\ \A i \in 1..Len(commands_text) :
       commands_text[i].key = palette_data[1].key

\* C2: _find_closest_color returns the earliest key in declared order among
\* the entries at minimal squared RGB distance; a pixel equal to an entry's
\* colour yields the key of the earliest entry with that colour.
C2_ClosestIsEarliestNearest ==
  Ready =>
    /\ \A c \in ProbeColors :
         _find_closest_color(palette_data, c) = NearestKey(palette_data, c)
    /\ \A j \in 1..Len(palette_data) :
         LET first == CHOOSE i \in 1..j :
                        /\ palette_data[i].rgb = palette_data[j].rgb
                        /\ \A h \in 1..(i - 1) :
                             palette_data[h].rgb # palette_data[j].rgb
         IN  _find_closest_color(palette_data, palette_data[j].rgb)
               = palette_data[first].key

\* C2 witness: two entries of different colours are both nearest to the
\* pixel colour of a converted image, and the earlier one was emitted.
C2_Witness ==
  /\ Ready
  /\ last_request.kind = "image"
  /\ commands_text # <<>>
  /\ \E i, j \in 1..Len(palette_data) :
       /\ i < j
       /\ palette_data[i].rgb # palette_data[j].rgb
       /\ \A c \in Cells :
            LET p == last_request.final_img[c]
                rgb == <<p[1], p[2], p[3]>>
            IN  /\ DistSq(rgb, palette_data[i].rgb)
                     = DistSq(rgb, palette_data[j].rgb)
                /\ \A h \in 1..Len(palette_data) :
                     DistSq(rgb, palette_data[h].rgb)
                       >= DistSq(rgb, palette_data[i].rgb)
       /\ commands_text[1].key = palette_data[i].key

OpaqueCells(final_img) == {c \in Cells : final_img[c][4] >= 128}

\* Position of a cell in the row-major scan (y outer, x inner).
ScanIndex(x, y) == (y * CANVAS_SIZE) + x

\* C3: after a conversion, the commands are exactly the row-major scan of
\* the final grid restricted to the pixels of alpha >= 128, one command
\* !pixel x,y,key per such pixel with key the nearest palette key of its
\* RGB: coordinates lie in [0, CANVAS_SIZE), no coordinate appears twice,
\* at most CANVAS_SIZE^2 commands, none for a pixel of alpha < 128.
C3_CommandsAreRowMajorOpaqueScan ==
  last_request.kind = "image" =>
    LET final_img == last_request.final_img
        n == Len(commands_text)
    IN  /\ n = Cardinality(OpaqueCells(final_img))
        /\ n <= CANVAS_SIZE * CANVAS_SIZE
        /\ \A i \in 1..n :
             LET c == commands_text[i]
             IN  /\ c.cmd = "!pixel"
                 /\ c.x \in 0..(CANVAS_SIZE - 1)
                 /\ c.y \in 0..(CANVAS_SIZE - 1)
                 /\ <<c.x, c.y>> \in OpaqueCells(final_img)
                 /\ c.key = NearestKey(palette_data,
                                       <<final_img[<<c.x, c.y>>][1],
                                         final_img[<<c.x, c.y>>][2],
                                         final_img[<<c.x, c.y>>][3]>>)
        /\ \A i, j \in 1..n :
             i < j => ScanIndex(commands_text[i].x, commands_text[i].y)
                        < ScanIndex(commands_text[j].x, commands_text[j].y)

\* C3 witness: a conversion whose final grid has a transparent cell before
\* an opaque one in scan order and opaque cells in two rows.
C3_Witness ==
  /\ last_request.kind = "image"
  /\ Len(commands_text) >= 2
  /\ last_request.final_img[<<0, 0>>][4] < 128
  /\ \E c, d \in OpaqueCells(last_request.final_img) : c[2] # d[2]

BadHexChars(h) ==
  LET t == IF h # <<>> /\ Head(h) = "#" THEN Tail(h) ELSE h
  IN  Len(t) # 6 \/ \E i \in 1..Len(t) : t[i] \notin DOMAIN HexDigitValue

\* The palette files of the four cases of C4.
BadPaletteFile(file) ==
  \/ file.kind = "FileNotFoundError"
  \/ file.kind = "JSONDecodeError"
  \/ \E i \in 1..Len(file.data) :
       \/ "hex" \notin DOMAIN file.data[i].value
       \/ /\ "hex" \in DOMAIN file.data[i].value
          /\ BadHexChars(file.data[i].value.hex)

\* C4: when the palette file is missing, is not valid JSON, has an entry
\* without hex, or has an entry whose hex is not 6 hex digits (optionally
\* #-prefixed), startup ends in the palette-error outcome: the error is
\* shown, no palette is installed, and no exception escapes.
C4_BadPaletteIsPaletteError ==
  (pc # "start" /\ BadPaletteFile(palette_file)) =>
    /\ pc = "destroyed"
    /\ messagebox = "Error"
    /\ palette_data = <<>>

\* C5: a request whose image cannot be decoded emits no command, leaves the
\* displayed commands and preview as they were, and leaves the application
\* ready, with its palette, for the next request.
C5_FailedRequestKeepsDisplay ==
  [][(pc = "ready" /\ last_request'.kind = "unreadable") =>
       /\ commands_text' = commands_text
       /\ preview_canvas' = preview_canvas
       /\ pc' = "ready"
       /\ prepared' = prepared
       /\ messagebox' = "Processing Error"]_vars

\* C5 witness: a request failed after a successful conversion, whose
\* commands and preview are still displayed.
C5_Witness ==
  /\ last_request.kind = "unreadable"
  /\ messagebox = "Processing Error"
  /\ commands_text # <<>>
  /\ Len(preview_canvas) = Len(commands_text)

DoubleGreater(a, b) == DoubleLess(b, a)

\* C7: the lightest colour key is the earliest key in declared order among
\* the entries of maximum luminance.
C7_LightestIsEarliestMaxLuminance ==
  Ready =>
    lightest_color_key
      = palette_data[EarliestMinimal(palette_data, Luminance,
                                     DoubleGreater)].key

\* C8: every colour of the table handed to the quantizer is the colour of
\* some palette entry.
C8_QuantizerTableWithinPalette ==
  Ready =>
    \A i \in 0..(TableLen(dither_palette) - 1) :
      TableColor(dither_palette, i) \in PaletteColors(palette_data)

\* C9 as stated: the colour at quantizer index i is the colour of the i-th
\* key in declared order.
C9_TableFollowsDeclaredOrder ==
  Ready =>
    \A i \in 1..Len(palette_data) :
      TableColor(dither_palette, i - 1) = palette_data[i].rgb

DeclaredPos(pd, key) == CHOOSE i \in 1..Len(pd) : pd[i].key = key

\* C9 amended: the colour at quantizer index i is the colour of the i-th
\* key in ascending order of int(key), keys of equal integer value in
\* declared order.
C9_TableFollowsNumericKeyOrder ==
  Ready =>
    /\ Len(sorted_palette_keys) = Len(palette_data)
    /\ {sorted_palette_keys[i] : i \in 1..Len(sorted_palette_keys)}
         = PaletteKeys(palette_data)
    /\ \A i, j \in 1..Len(sorted_palette_keys) :
         i < j =>
           \/ KeyInt(sorted_palette_keys[i]) < KeyInt(sorted_palette_keys[j])
           \/ /\ KeyInt(sorted_palette_keys[i])
                   = KeyInt(sorted_palette_keys[j])
              /\ DeclaredPos(palette_data, sorted_palette_keys[i])
                   < DeclaredPos(palette_data, sorted_palette_keys[j])
    /\ \A i \in 1..Len(sorted_palette_keys) :
         TableColor(dither_palette, i - 1)
           = PaletteRgb(palette_data, sorted_palette_keys[i])

\* C9 witness: a palette declared out of numeric key order, with different
\* colours, has been prepared.
C9_Witness ==
  /\ Ready
  /\ Len(palette_data) >= 2
  /\ KeyInt(palette_data[1].key) > KeyInt(palette_data[2].key)
  /\ palette_data[1].rgb # palette_data[2].rgb
  /\ TableColor(dither_palette, 0) = palette_data[2].rgb

\* C10: a cell whose sampled working-resolution pixel was transparent in
\* the original alpha mask (alpha < 128) is transparent in the final grid,
\* and no command is emitted for it.
C10_MaskTransparencySurvives ==
  last_request.kind = "image" =>
    \A c \in Cells :
      last_request.mask_alpha[c] < 128 =>
        /\ last_request.final_img[c][4] < 128
        /\ \A i \in 1..Len(commands_text) :
             <<commands_text[i].x, commands_text[i].y>> # c

====
